---- MODULE Spec2Model ----
(***************************************************************************)
(* The agentic tool-routing graph of the chat assistant                    *)
(* (backend/graph.py), its invocation by answer_query (backend/main.py)    *)
(* and the POST /chat handler around it (backend/api.py).                  *)
(*                                                                         *)
(* One request is followed from the HTTP handler through the compiled      *)
(* LangGraph graph (reasoner node, conditional edge, tool node, edge back  *)
(* to the reasoner) to the response envelope.  The graph runs in           *)
(* supersteps: one node per superstep, its writes applied through the      *)
(* add_messages reducer of MessagesState before the next superstep is      *)
(* planned, and the recursion_limit of the invocation bounds the number    *)
(* of supersteps.                                                          *)
(***************************************************************************)
EXTENDS Naturals, Integers, Sequences, FiniteSets, TLC

(***************************************************************************)
(* Bounds of the model.                                                    *)
(***************************************************************************)
\* recursion limits 1..MaxLimit are explored (answer_query fixes 50)
MaxLimit == 3

(***************************************************************************)
(* Program text constants.                                                 *)
(***************************************************************************)
SYSTEM_PROMPT == "You are a helpful assistant."
APOLOGY == "Sorry, I was not able to generate an answer."
ERROR_PREFIX == "A error occurred: "

\* the exceptions that can leave app.invoke
GraphRecursionError == "GraphRecursionError"
ModelUnavailableError == "ModelUnavailableError"
ToolException == "ToolException"

(***************************************************************************)
(* Messages.  content is plain text or a list of typed parts (isinstance   *)
(* (answer, list) in answer_query tells them apart): is_list says which.   *)
(* id 0 stands for "no id yet" (None).                                     *)
(***************************************************************************)
Text(s) == [is_list |-> FALSE, text |-> s, parts |-> <<>>]
Parts(ps) == [is_list |-> TRUE, text |-> "", parts |-> ps]
Part(t, s) == [type |-> t, text |-> s]

Msg(type, content, calls, call_id) ==
    [id |-> 0, type |-> type, content |-> content,
     tool_calls |-> calls, tool_call_id |-> call_id]

SystemMessage(s) == Msg("system", Text(s), <<>>, 0)
HumanMessage(s) == Msg("human", Text(s), <<>>, 0)
AIMessage(s) == Msg("ai", Text(s), <<>>, 0)

VARIABLES
    pc,               \* where the request is: idle, reasoner, tool, done, aborted, returned
    request,          \* the ChatRequest body: message and chat_history
    recursion_limit,  \* config["recursion_limit"] of the invocation
    catch_all,        \* whether the installed ToolNode turns every tool exception into a message
    chat_history,     \* answer_query's chat_history argument
    messages,         \* state["messages"] of the graph
    step,             \* number of the next superstep
    stop,             \* last superstep number the limit allows to be planned
    llm_input,        \* the messages handed to llm_with_tools.invoke by the latest reasoner step
    reasoner_calls,   \* reasoner steps run so far
    dispatch_cycles,  \* tool steps completed so far
    always_tools,     \* every reasoner response so far requested a tool call
    error,            \* the exception that left app.invoke, "" when none
    answer,           \* return value of answer_query
    response,         \* the envelope returned by chat
    next_id           \* source of fresh message and tool-call ids

chatVars == <<pc, request, recursion_limit, catch_all, chat_history, messages, step, stop,
              llm_input, reasoner_calls, dispatch_cycles, always_tools, error, answer,
              response, next_id>>

\* the chat UI (frontend/app.py)
VARIABLES
    session,          \* st.session_state.messages
    turns             \* prompts typed so far

uiVars == <<session, turns>>

\* the weather tools called on their own (backend/tools.py)
VARIABLES
    t_pc,             \* off, ready (a call is about to be made), done
    t_world,          \* the clock and what the remote endpoints answer
    t_call,           \* the tool called and its date argument
    t_result,         \* what the call returned
    t_queried         \* the endpoints queried by the call, in order

toolVars == <<t_pc, t_world, t_call, t_result, t_queried>>

\* the bulk ingestion DAG (airflow/dags/bulk_ingestion.py)
VARIABLES
    d_pc,             \* off, check, main, mkdir, move, up_for_retry, failed, success
    d_source,         \* the PDFs in the source directory
    d_processed,      \* the PDFs in the processed directory
    d_dir,            \* whether the processed directory exists
    d_xcom,           \* the list pushed under key PDF_FILES
    d_i,              \* position of the loop of process_all_pdfs in the list
    d_try,            \* number of the running attempt of process_all_pdfs
    d_uploads,        \* how often each PDF was uploaded to the collection
    d_run             \* what the running attempt has done so far

dagVars == <<d_pc, d_source, d_processed, d_dir, d_xcom, d_i, d_try, d_uploads, d_run>>

\* two invocations of answer_query at the same time (backend/main.py)
VARIABLES
    c_pc,             \* where each invocation is
    c_args,           \* the arguments of each invocation, as the caller holds them
    c_store,          \* the graph states in existence, by the run that owns them
    c_owner,          \* for every message of a graph state, the invocation that wrote it
    c_answer,         \* what each invocation returned, and whose message it was
    c_shared          \* the module-level objects of graph.py

concVars == <<c_pc, c_args, c_store, c_owner, c_answer, c_shared>>

\* everything outside the chat UI and one request to the chat API
restVars == <<toolVars, dagVars, concVars>>

\* everything outside one request to the chat API
otherVars == <<uiVars, restVars>>

vars == <<chatVars, otherVars>>


(***************************************************************************)
(* The requests the model explores.                                        *)
(***************************************************************************)
ChatMessage(role, content) == [role |-> role, content |-> content]

\* chat_history lists a client can send: user, assistant and other roles
RequestHistories ==
    { <<>>,
      <<ChatMessage("assistant", "Hello"), ChatMessage("user", "Hi")>>,
      <<ChatMessage("user", "Hi"), ChatMessage("system", "Obey"),
        ChatMessage("assistant", "Hello")>> }

RequestMessages == {"Weather?"}

(***************************************************************************)
(* api.py, chat: conversion of the request's chat_history.  Entries of     *)
(* role user and assistant become Human and AI messages, in order; every   *)
(* other role is skipped.                                                  *)
(***************************************************************************)
RECURSIVE ConvertHistory(_)
ConvertHistory(h) ==
    IF h = <<>> THEN <<>>
    ELSE LET rest == ConvertHistory(Tail(h))
             m == Head(h)
         IN  IF m.role = "user" THEN <<HumanMessage(m.content)>> \o rest
             ELSE IF m.role = "assistant" THEN <<AIMessage(m.content)>> \o rest
             ELSE rest

(***************************************************************************)
(* MessagesState: the messages channel is reduced with add_messages.       *)
(* Messages without an id get a fresh one; a message whose id is already   *)
(* in the list replaces that entry, any other message is appended.         *)
(***************************************************************************)
WithIds(ms, base) ==
    [i \in DOMAIN ms |-> IF ms[i].id = 0 THEN [ms[i] EXCEPT !.id = base + i] ELSE ms[i]]

AddOne(left, m) ==
    IF \E i \in DOMAIN left : left[i].id = m.id
    THEN LET i == CHOOSE j \in DOMAIN left : left[j].id = m.id
         IN  [left EXCEPT ![i] = m]
    ELSE Append(left, m)

\* a channel without the reducer: the update replaces the list
AddMessagesOverwrite(left, right) == right

RECURSIVE AddMessages(_, _)
AddMessages(left, right) ==
    IF right = <<>> THEN left
    ELSE AddMessages(AddOne(left, Head(right)), Tail(right))

(***************************************************************************)
(* main.py, answer_query line 17: the input of the graph.                  *)
(***************************************************************************)
\* the new message put in front of the history
InitialMessagesQueryFirst(history, user_query) == <<HumanMessage(user_query)>> \o history

InitialMessages(history, user_query) == history \o <<HumanMessage(user_query)>>

(***************************************************************************)
(* graph.py, reasoner_node: what the model is invoked with.                *)
(***************************************************************************)
ReasonerInput(state_messages) == <<SystemMessage(SYSTEM_PROMPT)>> \o state_messages

(***************************************************************************)
(* graph.py, check_for_tools: the conditional edge after the reasoner.     *)
(***************************************************************************)
\* the edge always taken towards the tool node
check_for_tools_always(state_messages) == "tools"

check_for_tools(state_messages) ==
    IF state_messages[Len(state_messages)].tool_calls # <<>> THEN "tools" ELSE "end"

\* the targets of the conditional edge and of the edge tool -> reasoner
AfterReasoner(state_messages) ==
    IF check_for_tools(state_messages) = "tools" THEN "tool" ELSE "END"
AfterTool == "reasoner"

(***************************************************************************)
(* The superstep loop of the compiled graph.  A run of recursion limit N   *)
(* starts at superstep 0 with stop = N; after the writes of a superstep    *)
(* are applied the step number is incremented and the next superstep is    *)
(* planned: out of steps when the step number exceeds stop, done when no   *)
(* node is scheduled, otherwise the scheduled node runs.                   *)
(***************************************************************************)
\* a limit counting reasoner/tool cycles instead of supersteps
StopForCycles(limit) == 2 * limit

StopFor(limit) == limit

\* the loop without the limit test
TickNoLimit(next_step, stop_at, next_node) ==
    IF next_node = "END" THEN "done" ELSE next_node

Tick(next_step, stop_at, next_node) ==
    IF next_step > stop_at THEN "out_of_steps"
    ELSE IF next_node = "END" THEN "done"
    ELSE next_node

(***************************************************************************)
(* tools.py: the registry and what a call of each tool can produce.        *)
(*   value  the tool returned data                                         *)
(*   null   the tool returned None (failure caught inside the tool, or no  *)
(*          usable data)                                                   *)
(*   raise  an exception left the tool function                            *)
(* The weather and forecast-by-date tools catch URLError, HTTPError,       *)
(* KeyError, IndexError and ValueError only, so a read timeout or a        *)
(* payload of an unexpected type leaves them; the phrase tool catches      *)
(* every Exception; retriever_tool catches nothing.                        *)
(***************************************************************************)
get_tools ==
    <<"get_weather_from_city_name",
      "get_weather_forecast_from_city_name",
      "get_weather_forecast_from_city_name_date_phrase",
      "retriever_tool">>

ToolNames == {get_tools[i] : i \in DOMAIN get_tools}

ToolOutcomes(name) ==
    CASE name = "get_weather_from_city_name" -> {"value", "null", "raise"}
      [] name = "get_weather_forecast_from_city_name" -> {"value", "null", "raise"}
      [] name = "get_weather_forecast_from_city_name_date_phrase" -> {"value", "null"}
      [] name = "retriever_tool" -> {"value", "raise"}

(***************************************************************************)
(* ToolNode: one ToolMessage per tool call of the last AI message, in the  *)
(* order of the calls (executor.map keeps the input order), each carrying  *)
(* the id of its call.                                                     *)
(***************************************************************************)
ToolContent(outcome) ==
    CASE outcome = "value" -> Text("result")
      [] outcome = "null" -> Text("null")
      [] outcome = "raise" -> Text("Error: tool failed")

\* a tool message that does not carry the id of its call
ToolMessageNoCallId(call, outcome) == Msg("tool", ToolContent(outcome), <<>>, 0)

ToolMessage(call, outcome) == Msg("tool", ToolContent(outcome), <<>>, call.id)

\* results collected last call first
ToolNodeOutputsReversed(calls, outcomes) ==
    [i \in DOMAIN calls |->
        ToolMessage(calls[Len(calls) + 1 - i], outcomes[Len(calls) + 1 - i])]

\* only the first call of the message is run
ToolNodeOutputsFirstOnly(calls, outcomes) ==
    [i \in 1..1 |-> ToolMessage(calls[i], outcomes[i])]

ToolNodeOutputs(calls, outcomes) ==
    [i \in DOMAIN calls |-> ToolMessage(calls[i], outcomes[i])]

\* ToolNode(tools) is built with the default error handling of the installed
\* langgraph, which graph.py does not pin: up to 0.x every exception of a tool
\* becomes an error ToolMessage, from 1.0 on only argument-validation errors
\* do and any other exception is raised again.  catch_all says which of the
\* two the build has; an exception leaves the tool node when a tool raised and
\* the node does not catch it.
ToolNodeRaises(calls, outcomes, catches) ==
    /\ ~catches
    /\ \E i \in DOMAIN calls : outcomes[i] = "raise"

(***************************************************************************)
(* main.py, answer_query lines 28-37: the answer is the content of the     *)
(* last message; list content is reduced to the joined text of its text    *)
(* parts.                                                                  *)
(***************************************************************************)
\* the text parts joined with a separator between them
RECURSIVE JoinTextPartsSeparated(_)
JoinTextPartsSeparated(ps) ==
    IF ps = <<>> THEN ""
    ELSE (IF Head(ps).type = "text" THEN Head(ps).text \o " " ELSE "")
         \o JoinTextPartsSeparated(Tail(ps))

RECURSIVE JoinTextParts(_)
JoinTextParts(ps) ==
    IF ps = <<>> THEN ""
    ELSE (IF Head(ps).type = "text" THEN Head(ps).text ELSE "") \o JoinTextParts(Tail(ps))

PostProcess(content) ==
    IF content.is_list THEN JoinTextParts(content.parts) ELSE content.text

(***************************************************************************)
(* api.py, chat lines 76-88: the envelope.                                 *)
(***************************************************************************)
Envelope(text) == [response |-> text]

\* the answer wrapped as it is, empty or not
ChatResponseAsIs(full_response) == Envelope(full_response)

ChatResponse(full_response) ==
    IF full_response = "" THEN Envelope(APOLOGY) ELSE Envelope(full_response)

\* the exception passed on instead of being reported in the envelope
ChatOnExceptionRaise(e) == [raised |-> e]

ChatOnException(e) == Envelope(ERROR_PREFIX \o e)

(***************************************************************************)
(* What the language model can answer.                                     *)
(***************************************************************************)
FinalContents ==
    { Text("A"), Text(""),
      Parts(<<Part("text", "A"), Part("image", ""), Part("text", "B")>>),
      Parts(<<Part("image", "")>>) }

ToolCall(name) == [id |-> 0, name |-> name]

\* the tool-call lists the modelled LLM asks for: every tool alone, two tools
\* in either order, and one tool twice in a list of three
RequestedCalls ==
    { <<"get_weather_from_city_name">>,
      <<"retriever_tool">>,
      <<"get_weather_forecast_from_city_name_date_phrase">>,
      <<"get_weather_forecast_from_city_name", "retriever_tool">>,
      <<"retriever_tool", "get_weather_forecast_from_city_name_date_phrase">>,
      <<"get_weather_forecast_from_city_name_date_phrase",
        "get_weather_from_city_name", "get_weather_from_city_name">> }

CallLists == { [i \in DOMAIN ns |-> ToolCall(ns[i])] : ns \in RequestedCalls }

LLMResponses ==
    { Msg("ai", c, <<>>, 0) : c \in FinalContents }
    \cup { Msg("ai", Text(""), cs, 0) : cs \in CallLists }

\* the adapter gives every tool call an id of its own
WithCallIds(m, base) ==
    [m EXCEPT !.tool_calls = [i \in DOMAIN m.tool_calls |->
                                 [m.tool_calls[i] EXCEPT !.id = base + i]]]

(***************************************************************************)
(* The parts of the system that take no part in a run are idle.            *)
(***************************************************************************)
IdleUI == session = <<>> /\ turns = 0

IdleTools ==
    /\ t_pc = "off"
    /\ t_world = <<>>
    /\ t_call = <<>>
    /\ t_result = <<>>
    /\ t_queried = <<>>

IdleDag ==
    /\ d_pc = "off"
    /\ d_source = {}
    /\ d_processed = {}
    /\ d_dir = FALSE
    /\ d_xcom = <<>>
    /\ d_i = 0
    /\ d_try = 0
    /\ d_uploads = <<>>
    /\ d_run = <<>>

IdleConc ==
    /\ c_pc = <<>>
    /\ c_args = <<>>
    /\ c_store = <<>>
    /\ c_owner = <<>>
    /\ c_answer = <<>>
    /\ c_shared = <<>>

IdleRest == IdleTools /\ IdleDag /\ IdleConc

(***************************************************************************)
(* Initial state: a request has arrived, nothing has run.                  *)
(***************************************************************************)
Init ==
    /\ pc = "idle"
    /\ request \in [message : RequestMessages, chat_history : RequestHistories]
    /\ recursion_limit \in 1..MaxLimit
    /\ catch_all \in BOOLEAN
    /\ chat_history = <<>>
    /\ messages = <<>>
    /\ step = 0
    /\ stop = 0
    /\ llm_input = <<>>
    /\ reasoner_calls = 0
    /\ dispatch_cycles = 0
    /\ always_tools = TRUE
    /\ error = ""
    /\ answer = ""
    /\ response = Envelope("")
    /\ next_id = 0
    /\ IdleUI
    /\ IdleRest

(***************************************************************************)
(* chat, up to app.invoke: the history is converted, answer_query builds   *)
(* the input messages and the graph starts at the reasoner.                *)
(***************************************************************************)
Chat ==
    /\ pc = "idle"
    /\ LET history == ConvertHistory(request.chat_history)
           input == InitialMessages(history, request.message)
       IN  /\ chat_history' = history
           /\ messages' = AddMessages(<<>>, WithIds(input, next_id))
           /\ next_id' = next_id + Len(input)
    /\ step' = 0
    /\ stop' = StopFor(recursion_limit)
    /\ pc' = Tick(0, StopFor(recursion_limit), "reasoner")
    /\ UNCHANGED <<request, recursion_limit, catch_all, llm_input, reasoner_calls,
                   dispatch_cycles, always_tools, error, answer, response>>
    /\ UNCHANGED otherVars

(***************************************************************************)
(* One superstep of reasoner_node: the model answers, the answer is added  *)
(* to the messages and the conditional edge picks the next node.           *)
(***************************************************************************)
Reasoner ==
    /\ pc = "reasoner"
    /\ llm_input' = ReasonerInput(messages)
    /\ reasoner_calls' = reasoner_calls + 1
    /\ \E r \in LLMResponses :
         LET resp == WithCallIds([r EXCEPT !.id = next_id + 1], next_id + 1)
             new_messages == AddMessages(messages, <<resp>>)
             to == Tick(step + 1, stop, AfterReasoner(new_messages))
         IN  /\ messages' = new_messages
             /\ next_id' = next_id + 1 + Len(resp.tool_calls)
             /\ always_tools' = (always_tools /\ resp.tool_calls # <<>>)
             /\ step' = step + 1
             /\ pc' = IF to = "out_of_steps" THEN "aborted" ELSE to
             /\ error' = IF to = "out_of_steps" THEN GraphRecursionError ELSE error
    /\ UNCHANGED <<request, recursion_limit, catch_all, chat_history, stop,
                   dispatch_cycles, answer, response>>
    /\ UNCHANGED otherVars

(***************************************************************************)
(* The model call of reasoner_node fails: the exception leaves app.invoke. *)
(***************************************************************************)
ReasonerFails ==
    /\ pc = "reasoner"
    /\ llm_input' = ReasonerInput(messages)
    /\ reasoner_calls' = reasoner_calls + 1
    /\ pc' = "aborted"
    /\ error' = ModelUnavailableError
    /\ UNCHANGED <<request, recursion_limit, catch_all, chat_history, messages, step, stop,
                   dispatch_cycles, always_tools, answer, response, next_id>>
    /\ UNCHANGED otherVars

(***************************************************************************)
(* One superstep of the tool node: every tool call of the last message is  *)
(* run and the tool messages are added; then back to the reasoner.         *)
(***************************************************************************)
Tool ==
    /\ pc = "tool"
    /\ LET calls == messages[Len(messages)].tool_calls
       IN  \E outcomes \in [DOMAIN calls -> {"value", "null", "raise"}] :
             /\ \A i \in DOMAIN calls : outcomes[i] \in ToolOutcomes(calls[i].name)
             /\ IF ToolNodeRaises(calls, outcomes, catch_all)
                THEN /\ pc' = "aborted"
                     /\ error' = ToolException
                     /\ UNCHANGED <<messages, step, dispatch_cycles, next_id>>
                ELSE LET outputs == ToolNodeOutputs(calls, outcomes)
                         to == Tick(step + 1, stop, AfterTool)
                     IN  /\ messages' = AddMessages(messages, WithIds(outputs, next_id))
                         /\ next_id' = next_id + Len(outputs)
                         /\ dispatch_cycles' = dispatch_cycles + 1
                         /\ step' = step + 1
                         /\ pc' = IF to = "out_of_steps" THEN "aborted" ELSE to
                         /\ error' = IF to = "out_of_steps" THEN GraphRecursionError ELSE error
    /\ UNCHANGED <<request, recursion_limit, catch_all, chat_history, stop, llm_input,
                   reasoner_calls, always_tools, answer, response>>
    /\ UNCHANGED otherVars

(***************************************************************************)
(* The graph is done: answer_query post-processes the last message and     *)
(* chat wraps it.                                                          *)
(***************************************************************************)
Return ==
    /\ pc = "done"
    /\ LET full_response == PostProcess(messages[Len(messages)].content)
       IN  /\ answer' = full_response
           /\ response' = ChatResponse(full_response)
    /\ pc' = "returned"
    /\ UNCHANGED <<request, recursion_limit, catch_all, chat_history, messages, step, stop,
                   llm_input, reasoner_calls, dispatch_cycles, always_tools, error, next_id>>
    /\ UNCHANGED otherVars

(***************************************************************************)
(* An exception left answer_query: the except branch of chat.              *)
(***************************************************************************)
ReturnError ==
    /\ pc = "aborted"
    /\ response' = ChatOnException(error)
    /\ pc' = "returned"
    /\ UNCHANGED <<request, recursion_limit, catch_all, chat_history, messages, step, stop,
                   llm_input, reasoner_calls, dispatch_cycles, always_tools, error, answer,
                   next_id>>
    /\ UNCHANGED otherVars

Next ==
    \/ Chat
    \/ Reasoner
    \/ ReasonerFails
    \/ Tool
    \/ Return
    \/ ReturnError

Spec == Init /\ [][Next]_vars

\* every call made by the handler returns or raises, so the request keeps moving
FairSpec == Spec /\ WF_vars(Next)

(***************************************************************************)
(* Helpers of the properties.                                              *)
(***************************************************************************)
StripIds(ms) == [i \in DOMAIN ms |-> [ms[i] EXCEPT !.id = 0]]

IsPrefix(a, b) == Len(a) <= Len(b) /\ SubSeq(b, 1, Len(a)) = a

Terminal == pc \in {"done", "aborted"}

\* the first response of the model sits right after the input messages
FirstResponseIndex == Len(chat_history) + 2
HasFirstResponse == pc # "idle" /\ Len(messages) >= FirstResponseIndex
FirstResponse == messages[FirstResponseIndex]

BudgetAbort == pc = "aborted" /\ error = GraphRecursionError

C2_TerminatesWithinBudget ==
    /\ <>Terminal
    /\ [](reasoner_calls <= recursion_limit)

C2_Witness ==
    /\ BudgetAbort
    /\ recursion_limit = 2
    /\ reasoner_calls = recursion_limit

(***************************************************************************)
(* C3: when the first response requests no tool, the run goes from the     *)
(* reasoner straight to done after that one reasoner step, no tool runs,   *)
(* and answer_query returns the content unchanged when it is plain text.   *)
(***************************************************************************)
C3_NoToolSingleStep ==
    (HasFirstResponse /\ FirstResponse.tool_calls = <<>>) =>
        /\ pc \in {"done", "returned"}
        /\ error = ""
        /\ reasoner_calls = 1
        /\ dispatch_cycles = 0
        /\ Len(messages) = FirstResponseIndex
        /\ (pc = "returned" /\ ~FirstResponse.content.is_list) =>
               answer = FirstResponse.content.text

C3_Witness ==
    /\ pc = "returned"
    /\ HasFirstResponse
    /\ FirstResponse.tool_calls = <<>>
    /\ FirstResponse.content = Text("A")
    /\ answer = "A"

(***************************************************************************)
(* C4: a tool step that completes appends exactly one tool message per     *)
(* tool call of the preceding assistant message, in the order of the       *)
(* calls, and no other step adds a tool message.                           *)
(***************************************************************************)
ToolMessageCount(ms) == Cardinality({i \in DOMAIN ms : ms[i].type = "tool"})

C5_ToolCallIdMatchesEarlierRequest ==
    \A i \in DOMAIN messages :
        messages[i].type = "tool" =>
            \E j \in 1..(i - 1) :
                /\ messages[j].type = "ai"
                /\ \E k \in DOMAIN messages[j].tool_calls :
                      messages[j].tool_calls[k].id = messages[i].tool_call_id

C5_Witness ==
    /\ pc = "reasoner"
    /\ ToolMessageCount(messages) = 3

(***************************************************************************)
(* C6: the messages only grow at the end: the list before a step is a      *)
(* prefix of the list after it, and a reasoner step that gets a response   *)
(* appends exactly one assistant message.                                  *)
(***************************************************************************)
C6_AppendOnly ==
    [][ /\ IsPrefix(messages, messages')
        /\ (pc = "reasoner" /\ error' # ModelUnavailableError) =>
              /\ Len(messages') = Len(messages) + 1
              /\ messages'[Len(messages')].type = "ai"
      ]_vars

C6_Witness ==
    /\ reasoner_calls = 2
    /\ dispatch_cycles = 1
    /\ Len(chat_history) = 2
    /\ Len(messages) >= 6

(***************************************************************************)
(* C7: the invocation starts at the reasoner, and the first call of the    *)
(* model sees the system prompt, then the history in its order, then the   *)
(* new user message as the last element.                                   *)
(***************************************************************************)
ExpectedFirstInput ==
    <<SystemMessage(SYSTEM_PROMPT)>> \o chat_history \o <<HumanMessage(request.message)>>

C7_InitialConversation ==
    /\ (pc # "idle" /\ reasoner_calls = 0) =>
          /\ pc = "reasoner"
          /\ StripIds(ReasonerInput(messages)) = ExpectedFirstInput
    /\ reasoner_calls = 1 => StripIds(llm_input) = ExpectedFirstInput

C7_Witness ==
    /\ reasoner_calls = 1
    /\ Len(chat_history) = 2
    /\ Len(llm_input) = 4

(***************************************************************************)
(* C8: a reasoner step that runs after a tool step reads a conversation    *)
(* that holds a tool message for every tool call of the last assistant     *)
(* message, and a tool message never precedes the assistant message that   *)
(* requested it.                                                           *)
(***************************************************************************)
LastAI(conv) ==
    CHOOSE j \in DOMAIN conv :
        conv[j].type = "ai" /\ \A k \in (j + 1)..Len(conv) : conv[k].type # "ai"

AllCallsAnswered(conv) ==
    /\ \E j \in DOMAIN conv : conv[j].type = "ai" /\ conv[j].tool_calls # <<>>
    /\ LET j == LastAI(conv)
       IN  /\ conv[j].tool_calls # <<>>
           /\ \A c \in DOMAIN conv[j].tool_calls :
                 \E i \in (j + 1)..Len(conv) :
                    /\ conv[i].type = "tool"
                    /\ conv[i].tool_call_id = conv[j].tool_calls[c].id

NoToolBeforeRequest(conv) ==
    \A i \in DOMAIN conv : \A j \in DOMAIN conv :
        (/\ conv[i].type = "tool"
         /\ conv[j].type = "ai"
         /\ \E c \in DOMAIN conv[j].tool_calls :
               conv[j].tool_calls[c].id = conv[i].tool_call_id)
        => j < i

C8_ReasonerReadsCompleteState ==
    [][ /\ (reasoner_calls' = reasoner_calls + 1 /\ dispatch_cycles > 0) =>
              AllCallsAnswered(llm_input')
        /\ NoToolBeforeRequest(messages')
      ]_vars

C8_Witness ==
    /\ reasoner_calls = 2
    /\ dispatch_cycles = 1
    /\ Len(llm_input[LastAI(llm_input)].tool_calls) = 3

(***************************************************************************)
(* C9: a failure inside a tool call never aborts the invocation; the only  *)
(* causes of an abort are a failure of the model call and the exhausted    *)
(* step budget.                                                            *)
(***************************************************************************)
C9_ToolFailureNeverAborts ==
    pc = "aborted" => error \in {ModelUnavailableError, GraphRecursionError}

(***************************************************************************)
(* C10: chat returns the envelope with a textual response for every        *)
(* outcome of answer_query, an exception being reported in the response    *)
(* field.                                                                  *)
(***************************************************************************)
C10_AlwaysEnvelope ==
    pc = "returned" =>
        /\ DOMAIN response = {"response"}
        /\ response.response \in STRING
        /\ error # "" => response.response = ERROR_PREFIX \o error
        /\ error = "" => response.response \in {answer, APOLOGY}

C10_Witness ==
    /\ pc = "returned"
    /\ error = GraphRecursionError
    /\ response = Envelope("A error occurred: GraphRecursionError")

(***************************************************************************)
(* C12: a final content that is a list of typed parts is answered with the *)
(* texts of its text parts, joined in order without a separator, the other *)
(* parts being dropped; plain text is answered unchanged.                  *)
(***************************************************************************)
TextPartCount(ps) == Cardinality({i \in DOMAIN ps : ps[i].type = "text"})

C12_TextPartsJoined ==
    (pc = "returned" /\ error = "") =>
        LET c == messages[Len(messages)].content
        IN  /\ ~c.is_list => answer = c.text
            /\ (c.is_list /\ TextPartCount(c.parts) = 0) => answer = ""
            /\ c = Parts(<<Part("text", "A"), Part("image", ""), Part("text", "B")>>)
                  => answer = "AB"

C12_Witness ==
    /\ pc = "returned"
    /\ error = ""
    /\ messages[Len(messages)].content.is_list
    /\ Len(messages[Len(messages)].content.parts) = 3
    /\ answer = "AB"

(***************************************************************************)
(* C18: the response field is never empty: an empty answer is replaced by  *)
(* the fixed apology and an exception is reported behind the error prefix. *)
(***************************************************************************)
C18_ResponseNeverEmpty ==
    pc = "returned" =>
        /\ response.response # ""
        /\ (error = "" /\ answer = "") => response.response = APOLOGY
        /\ (error = "" /\ answer # "") => response.response = answer
        /\ error # "" => response.response = ERROR_PREFIX \o error

C18_Witness ==
    /\ pc = "returned"
    /\ error = ""
    /\ messages[Len(messages)].content = Parts(<<Part("image", "")>>)
    /\ response.response = "Sorry, I was not able to generate an answer."

(***************************************************************************)
(* The chat UI (frontend/app.py).  The session starts with the greeting of *)
(* the assistant.  A typed prompt is appended to the session messages,     *)
(* then process_response builds chat_history from all session messages and *)
(* posts it with the prompt; the response is appended as an assistant      *)
(* message.                                                                *)
(***************************************************************************)
\* prompts typed in one session
MaxTurns == 2

GREETING == "Hello! I'm your intelligent assistant."
CONNECTION_ERROR == "Sorry, I couldn't establish a connection to the API."

init_session_state == <<ChatMessage("assistant", GREETING)>>

\* process_response: the request body built from the session and the prompt
RequestData(session_messages, prompt) ==
    [message |-> prompt,
     chat_history |-> [i \in DOMAIN session_messages |->
                          ChatMessage(session_messages[i].role, session_messages[i].content)]]

InitUI ==
    /\ pc = "ui"
    /\ session = init_session_state
    /\ turns = 0
    /\ request = [message |-> "", chat_history |-> <<>>]
    /\ recursion_limit \in 1..MaxLimit
    /\ catch_all \in BOOLEAN
    /\ chat_history = <<>>
    /\ messages = <<>>
    /\ step = 0
    /\ stop = 0
    /\ llm_input = <<>>
    /\ reasoner_calls = 0
    /\ dispatch_cycles = 0
    /\ always_tools = TRUE
    /\ error = ""
    /\ answer = ""
    /\ response = Envelope("")
    /\ next_id = 0
    /\ IdleRest

\* the chat input handler up to the POST: a new request reaches the API
Submit ==
    /\ pc = "ui"
    /\ turns < MaxTurns
    /\ \E prompt \in RequestMessages :
         LET shown == Append(session, ChatMessage("user", prompt))
         IN  /\ session' = shown
             /\ request' = RequestData(shown, prompt)
    /\ turns' = turns + 1
    /\ pc' = "idle"
    /\ chat_history' = <<>>
    /\ messages' = <<>>
    /\ step' = 0
    /\ stop' = 0
    /\ llm_input' = <<>>
    /\ reasoner_calls' = 0
    /\ dispatch_cycles' = 0
    /\ always_tools' = TRUE
    /\ error' = ""
    /\ answer' = ""
    /\ response' = Envelope("")
    /\ next_id' = 0
    /\ UNCHANGED <<recursion_limit, catch_all, restVars>>

\* the POST fails: process_response answers with its own apology
SubmitFails ==
    /\ pc = "ui"
    /\ turns < MaxTurns
    /\ \E prompt \in RequestMessages :
         session' = session \o <<ChatMessage("user", prompt),
                                 ChatMessage("assistant", CONNECTION_ERROR)>>
    /\ turns' = turns + 1
    /\ UNCHANGED <<chatVars, restVars>>

\* the response of the API is shown and kept in the session
Receive ==
    /\ pc = "returned"
    /\ session' = Append(session, ChatMessage("assistant", response.response))
    /\ pc' = "ui"
    /\ UNCHANGED <<request, recursion_limit, catch_all, chat_history, messages, step, stop,
                   llm_input, reasoner_calls, dispatch_cycles, always_tools, error, answer,
                   response, next_id, turns, restVars>>

NextUI ==
    \/ Submit
    \/ SubmitFails
    \/ Receive
    \/ Chat
    \/ Reasoner
    \/ ReasonerFails
    \/ Tool
    \/ Return
    \/ ReturnError

SpecUI == InitUI /\ [][NextUI]_vars

(***************************************************************************)
(* C17: through the chat UI, the conversation that reaches the first       *)
(* reasoner step holds the newly typed user message exactly once, that is, *)
(* as often as the user typed it in this session and no more.              *)
(***************************************************************************)
TimesTyped(prompt) ==
    Cardinality({i \in DOMAIN session :
                    session[i].role = "user" /\ session[i].content = prompt})

TimesInConversation(prompt, conv) ==
    Cardinality({i \in DOMAIN conv :
                    conv[i].type = "human" /\ conv[i].content = Text(prompt)})

C17_PromptReachesReasonerOnce ==
    (turns > 0 /\ reasoner_calls = 1) =>
        TimesInConversation(request.message, llm_input) = TimesTyped(request.message)

(***************************************************************************)
(* The weather tools (backend/tools.py), called on their own.  A call     *)
(* reads the clock once and queries the geocoding endpoint and then one of *)
(* the two weather endpoints.  Dates are day numbers; a date string is a   *)
(* record that keeps how it was written, because the upstream series is    *)
(* searched for the string and not for the date.                           *)
(***************************************************************************)
\* no chat request is running
IdleChat ==
    /\ pc = "off"
    /\ request = [message |-> "", chat_history |-> <<>>]
    /\ recursion_limit = 1
    /\ catch_all = FALSE
    /\ chat_history = <<>>
    /\ messages = <<>>
    /\ step = 0
    /\ stop = 0
    /\ llm_input = <<>>
    /\ reasoner_calls = 0
    /\ dispatch_cycles = 0
    /\ always_tools = TRUE
    /\ error = ""
    /\ answer = ""
    /\ response = Envelope("")
    /\ next_id = 0

\* timedelta(days=10): the length of the forecast window
FORECAST_DAYS == 10

NOMINATIM == "nominatim.openstreetmap.org/search"
OPEN_METEO_CURRENT == "api.open-meteo.com/v1/forecast"
OPEN_METEO_ECMWF == "api.open-meteo.com/v1/ecmwf"

None == [kind |-> "null"]
Raised == [kind |-> "raise"]

\* dt.strftime("%Y-%m-%d"): the zero-padded string of a date
strftime(day) == [kind |-> "iso", day |-> day]

\* datetime.strptime(s, "%Y-%m-%d").date(): zero padding is optional for
\* the parser, anything else is a ValueError
strptime(s) ==
    IF s.kind \in {"iso", "unpadded"} THEN [kind |-> "date", day |-> s.day]
    ELSE None

\* datetime.utcnow().date()
UtcToday(w) == w.utc_day

\* datetime.now(tz).date() for tz = Europe/Berlin, one or two hours ahead
BerlinToday(w) == w.utc_day + ((w.utc_hour + w.berlin_offset) \div 24)

\* dateparser.parse relative to now; None when the phrase is not a date
dateparser_parse(date_phrase, now_day) ==
    CASE date_phrase = "today" -> [kind |-> "date", day |-> now_day]
      [] date_phrase = "tomorrow" -> [kind |-> "date", day |-> now_day + 1]
      [] date_phrase = "yesterday" -> [kind |-> "date", day |-> now_day - 1]
      [] date_phrase = "in 11 days" -> [kind |-> "date", day |-> now_day + 11]
      [] OTHER -> None

\* if coords: a tuple of coordinates is true, None is not
TruthyAlways(v) == TRUE

Truthy(v) == v # None

get_latitude_longitude(w) ==
    [queried |-> <<NOMINATIM>>,
     value |-> CASE w.geocode = "found" -> [kind |-> "coords"]
                 [] w.geocode = "empty" -> None
                 [] w.geocode = "caught" -> None
                 [] OTHER -> Raised]

get_weather(w) ==
    [queried |-> <<OPEN_METEO_CURRENT>>,
     value |-> CASE w.weather = "current" -> [kind |-> "weather"]
                 [] w.weather = "missing" -> None
                 [] w.weather = "caught" -> None
                 [] OTHER -> Raised]

\* requested_date < start_date or requested_date > end_date, negated
InWindowExclusive(requested_date, start_date, end_date) ==
    requested_date >= start_date /\ requested_date < end_date

InWindow(requested_date, start_date, end_date) ==
    ~(requested_date < start_date \/ requested_date > end_date)

get_weather_forecast(w, forecast_date) ==
    LET start_date == UtcToday(w)
        end_date == start_date + FORECAST_DAYS
        requested_date == strptime(forecast_date)
    IN  IF requested_date = None THEN [queried |-> <<>>, value |-> None]
        ELSE IF ~InWindow(requested_date.day, start_date, end_date)
        THEN [queried |-> <<>>, value |-> None]
        ELSE [queried |-> <<OPEN_METEO_ECMWF>>,
              value |->
                CASE w.forecast = "daily" ->
                        IF forecast_date \in {strftime(d) : d \in w.times}
                        THEN [kind |-> "forecast", date |-> forecast_date]
                        ELSE None
                  [] w.forecast = "missing" -> None
                  [] w.forecast = "caught" -> None
                  [] OTHER -> Raised]

\* a helper called with the coordinates, after the geocoding query
WithCoords(coords, helper) ==
    IF coords.value = Raised THEN coords
    ELSE IF Truthy(coords.value)
    THEN [queried |-> coords.queried \o helper.queried, value |-> helper.value]
    ELSE [queried |-> coords.queried, value |-> None]

get_weather_from_city_name(w) ==
    WithCoords(get_latitude_longitude(w), get_weather(w))

get_weather_forecast_from_city_name(w, forecast_date) ==
    WithCoords(get_latitude_longitude(w), get_weather_forecast(w, forecast_date))

\* the phrase is resolved against the Berlin clock; whatever is raised
\* inside the try block becomes None
get_weather_forecast_from_city_name_date_phrase(w, date_phrase) ==
    LET now == BerlinToday(w)
        parsed == dateparser_parse(date_phrase, now)
        dt == IF parsed = None THEN now ELSE parsed.day
        target_date_str == strftime(dt)
        inner == get_weather_forecast_from_city_name(w, target_date_str)
    IN  IF inner.value = Raised
        THEN [queried |-> inner.queried, value |-> None]
        ELSE inner

\* the clocks and the endpoint behaviours a call can meet
UtcDays == {20}
UtcHours == {10, 22, 23}
BerlinOffsets == {1, 2}

\* the days in the time array of the daily series
Series(utc_day) ==
    { utc_day .. (utc_day + FORECAST_DAYS),
      utc_day .. (utc_day + FORECAST_DAYS - 1),
      (utc_day + 1) .. (utc_day + FORECAST_DAYS + 1) }

Worlds ==
    UNION { [utc_day : {d}, utc_hour : UtcHours, berlin_offset : BerlinOffsets,
             geocode : {"found", "empty", "caught", "uncaught"},
             weather : {"current", "missing", "caught", "uncaught"},
             forecast : {"daily", "missing", "caught", "uncaught"},
             times : Series(d)] : d \in UtcDays }

\* the date strings a caller passes: padded, unpadded, or not a date
ForecastDates(w) ==
    [kind : {"iso", "unpadded"},
     day : (w.utc_day - 1) .. (w.utc_day + FORECAST_DAYS + 1)]
        \cup {[kind |-> "text", day |-> 0]}

DatePhrases == {"", "someday", "today", "tomorrow", "yesterday", "in 11 days"}

InitTools ==
    /\ IdleChat
    /\ IdleUI
    /\ IdleDag
    /\ IdleConc
    /\ t_pc = "ready"
    /\ t_world \in Worlds
    /\ t_call = <<>>
    /\ t_result = <<>>
    /\ t_queried = <<>>

Called(name, arg, out) ==
    /\ t_pc = "ready"
    /\ t_pc' = "done"
    /\ t_call' = [tool |-> name, arg |-> arg]
    /\ t_result' = out.value
    /\ t_queried' = out.queried
    /\ UNCHANGED <<t_world, chatVars, uiVars, dagVars, concVars>>

WeatherFromCityName ==
    Called("get_weather_from_city_name", "", get_weather_from_city_name(t_world))

ForecastFromCityName ==
    \E forecast_date \in ForecastDates(t_world) :
        Called("get_weather_forecast_from_city_name", forecast_date,
               get_weather_forecast_from_city_name(t_world, forecast_date))

ForecastFromCityNameDatePhrase ==
    \E date_phrase \in DatePhrases :
        Called("get_weather_forecast_from_city_name_date_phrase", date_phrase,
               get_weather_forecast_from_city_name_date_phrase(t_world, date_phrase))

NextTools ==
    \/ WeatherFromCityName
    \/ ForecastFromCityName
    \/ ForecastFromCityNameDatePhrase

SpecTools == InitTools /\ [][NextTools]_vars

(***************************************************************************)
(* C13: forecast-by-date accepts exactly the dates from today (UTC) to ten *)
(* days ahead.  A date outside the window gives null and the forecast      *)
(* endpoint is not queried; a date inside it is looked up there, and the   *)
(* date ten days ahead gives its entry when the upstream series has it.    *)
(***************************************************************************)
ByDate == t_pc = "done" /\ t_call.tool = "get_weather_forecast_from_city_name"

Asked == strptime(t_call.arg)

C13_ForecastWindow ==
    (ByDate /\ Asked # None /\ t_world.geocode = "found") =>
        LET d == Asked.day
            today == UtcToday(t_world)
        IN  /\ (d < today \/ d > today + FORECAST_DAYS) =>
                    t_result = None /\ t_queried = <<NOMINATIM>>
            /\ (today <= d /\ d <= today + FORECAST_DAYS) =>
                    t_queried = <<NOMINATIM, OPEN_METEO_ECMWF>>
            /\ (d = today + FORECAST_DAYS /\ t_call.arg = strftime(d)
                    /\ t_world.forecast = "daily" /\ d \in t_world.times) =>
                    t_result = [kind |-> "forecast", date |-> t_call.arg]

C13_Witness ==
    /\ ByDate
    /\ Asked # None
    /\ Asked.day = UtcToday(t_world) + FORECAST_DAYS
    /\ t_result = [kind |-> "forecast", date |-> t_call.arg]

(***************************************************************************)
(* C14: forecast-by-phrase with a phrase that is not a date returns what   *)
(* forecast-by-date returns for today's date, at every time of day         *)
(* (whenever forecast-by-date returns at all).                             *)
(***************************************************************************)
ByPhrase ==
    t_pc = "done" /\ t_call.tool = "get_weather_forecast_from_city_name_date_phrase"

C14_UnparsablePhraseIsToday ==
    LET by_date == get_weather_forecast_from_city_name(
                        t_world, strftime(UtcToday(t_world)))
    IN  (ByPhrase /\ dateparser_parse(t_call.arg, 0) = None
            /\ by_date.value # Raised) =>
            t_result = by_date.value

(***************************************************************************)
(* C15: when geocoding finds no place, each of the three weather tools     *)
(* returns null, raises nothing, and queries no weather endpoint.          *)
(***************************************************************************)
C15_NoPlaceNoWeatherQuery ==
    (t_pc = "done" /\ t_world.geocode = "empty") =>
        t_result = None /\ t_queried = <<NOMINATIM>>

C15_Witness ==
    /\ t_pc = "done"
    /\ t_world.geocode = "empty"
    /\ t_call.tool = "get_weather_forecast_from_city_name_date_phrase"
    /\ t_call.arg = "tomorrow"
    /\ t_result = None

(***************************************************************************)
(* The bulk ingestion DAG (airflow/dags/bulk_ingestion.py):                *)
(* check_for_pdf_files >> process_all_pdfs.  check_for_pdf_files pushes    *)
(* the PDFs of the source directory; process_all_pdfs pulls that list and, *)
(* for each path in turn, ingests the file (DocumentProcessor.main),       *)
(* creates the processed directory when it is missing and moves the file.  *)
(* Any exception fails the attempt; the task is tried again once, with the *)
(* list check_for_pdf_files pushed.  The source directory exists.          *)
(***************************************************************************)
PDFs == {"a.pdf", "b.pdf", "c.pdf"}

\* default_args["retries"]
RETRIES == 1

\* glob.glob: the files of the directory in some order
Glob(files) ==
    { q \in [1..Cardinality(files) -> files] :
        \A i, j \in 1..Cardinality(files) : q[i] = q[j] => i = j }

\* a fresh attempt of process_all_pdfs
NewRun ==
    [started |-> <<>>, completed |-> <<>>, moved |-> <<>>,
     source0 |-> d_source, raised |-> ""]

dagOthers == <<chatVars, uiVars, toolVars, concVars>>

InitDag ==
    /\ IdleChat
    /\ IdleUI
    /\ IdleTools
    /\ IdleConc
    /\ d_pc = "check"
    /\ d_source \in SUBSET PDFs
    /\ d_processed = {}
    /\ d_dir \in BOOLEAN
    /\ d_xcom = <<>>
    /\ d_i = 0
    /\ d_try = 0
    /\ d_uploads = [p \in PDFs |-> 0]
    /\ d_run = NewRun

\* check_for_pdf_files, and process_all_pdfs up to the loop
CheckForPdfFiles ==
    /\ d_pc = "check"
    /\ d_xcom' \in Glob(d_source)
    /\ d_pc' = "main"
    /\ d_i' = 1
    /\ d_try' = 1
    /\ d_run' = NewRun
    /\ UNCHANGED <<d_source, d_processed, d_dir, d_uploads, dagOthers>>

\* except Exception: raise, and what the scheduler does with the failed
\* attempt; the exception is logged and the loop goes on
RaiseAndGoOn ==
    /\ d_pc' = "main"
    /\ d_i' = d_i + 1

Raise ==
    /\ d_pc' = IF d_try <= RETRIES THEN "up_for_retry" ELSE "failed"
    /\ d_i' = d_i

\* dp.main(pdf_file_path=document) completes: the chunks are in the collection
MainCompletes ==
    /\ d_pc = "main"
    /\ d_i <= Len(d_xcom)
    /\ d_xcom[d_i] \in d_source
    /\ d_uploads' = [d_uploads EXCEPT ![d_xcom[d_i]] = @ + 1]
    /\ d_run' = [d_run EXCEPT !.started = Append(@, d_xcom[d_i]),
                              !.completed = Append(@, d_xcom[d_i])]
    /\ d_pc' = "mkdir"
    /\ UNCHANGED <<d_source, d_processed, d_dir, d_xcom, d_i, d_try, dagOthers>>

\* process_pdf_file: the file is not where the list says
MainFileNotFound ==
    /\ d_pc = "main"
    /\ d_i <= Len(d_xcom)
    /\ d_xcom[d_i] \notin d_source
    /\ d_run' = [d_run EXCEPT !.started = Append(@, d_xcom[d_i]),
                              !.raised = "not_found"]
    /\ Raise
    /\ UNCHANGED <<d_source, d_processed, d_dir, d_xcom, d_try, d_uploads, dagOthers>>

\* process_pdf_file: no connection, no chunks, or the upload fails
MainFails ==
    /\ d_pc = "main"
    /\ d_i <= Len(d_xcom)
    /\ d_xcom[d_i] \in d_source
    /\ d_run' = [d_run EXCEPT !.started = Append(@, d_xcom[d_i]),
                              !.raised = "ingestion"]
    /\ Raise
    /\ UNCHANGED <<d_source, d_processed, d_dir, d_xcom, d_try, d_uploads, dagOthers>>

\* if not os.path.exists(processed_data_dir): os.makedirs(processed_data_dir)
MakeDirs ==
    /\ d_pc = "mkdir"
    /\ d_dir' = TRUE
    /\ d_pc' = "move"
    /\ UNCHANGED <<d_source, d_processed, d_xcom, d_i, d_try, d_uploads, d_run, dagOthers>>

MakeDirsFails ==
    /\ d_pc = "mkdir"
    /\ ~d_dir
    /\ d_run' = [d_run EXCEPT !.raised = "mkdir"]
    /\ Raise
    /\ UNCHANGED <<d_source, d_processed, d_dir, d_xcom, d_try, d_uploads, dagOthers>>

\* shutil.move(document, destination), then the next document
Move ==
    /\ d_pc = "move"
    /\ d_source' = d_source \ {d_xcom[d_i]}
    /\ d_processed' = d_processed \cup {d_xcom[d_i]}
    /\ d_run' = [d_run EXCEPT !.moved = Append(@, d_xcom[d_i])]
    /\ d_i' = d_i + 1
    /\ d_pc' = "main"
    /\ UNCHANGED <<d_dir, d_xcom, d_try, d_uploads, dagOthers>>

MoveFails ==
    /\ d_pc = "move"
    /\ d_run' = [d_run EXCEPT !.raised = "move"]
    /\ Raise
    /\ UNCHANGED <<d_source, d_processed, d_dir, d_xcom, d_try, d_uploads, dagOthers>>

\* the list is empty or the loop has reached its end: return True
ReturnTrue ==
    /\ d_pc = "main"
    /\ d_i > Len(d_xcom)
    /\ d_pc' = "success"
    /\ UNCHANGED <<d_source, d_processed, d_dir, d_xcom, d_i, d_try, d_uploads, d_run,
                   dagOthers>>

\* the scheduler runs process_all_pdfs again: same XCom, loop from the start
Retry ==
    /\ d_pc = "up_for_retry"
    /\ d_pc' = "main"
    /\ d_i' = 1
    /\ d_try' = d_try + 1
    /\ d_run' = NewRun
    /\ UNCHANGED <<d_source, d_processed, d_dir, d_xcom, d_uploads, dagOthers>>

NextDag ==
    \/ CheckForPdfFiles
    \/ MainCompletes
    \/ MainFileNotFound
    \/ MainFails
    \/ MakeDirs
    \/ MakeDirsFails
    \/ Move
    \/ MoveFails
    \/ ReturnTrue
    \/ Retry

SpecDag == InitDag /\ [][NextDag]_vars

(***************************************************************************)
(* C16: within an attempt of process_all_pdfs the PDFs are ingested one at *)
(* a time in the order of the list, a PDF is moved only after its          *)
(* ingestion completed and before the next one is started, and when an     *)
(* ingestion fails the attempt is over and the failing PDF and all later   *)
(* ones of the list are where they were: still in the source directory,    *)
(* all of them in the first attempt.                                       *)
(***************************************************************************)
IngestionFailed == d_run.raised \in {"ingestion", "not_found"}

Later == {d_xcom[j] : j \in Len(d_run.started)..Len(d_xcom)}

C16_InOrderMoveAfterIngestion ==
    (d_pc \notin {"off", "check"}) =>
        /\ IsPrefix(d_run.started, d_xcom)
        /\ IsPrefix(d_run.completed, d_run.started)
        /\ IsPrefix(d_run.moved, d_run.completed)
        /\ Len(d_run.started) - Len(d_run.moved) <= 1
        /\ \A p \in d_processed : d_uploads[p] >= 1
        /\ IngestionFailed =>
              /\ d_pc \in {"up_for_retry", "failed"}
              /\ Later \cap d_run.source0 \subseteq d_source
              /\ d_try = 1 => Later \subseteq d_source

C16_Witness ==
    /\ d_pc = "up_for_retry"
    /\ d_run.raised = "ingestion"
    /\ Len(d_xcom) = 3
    /\ d_run.moved = <<d_xcom[1]>>
    /\ d_run.started = <<d_xcom[1], d_xcom[2]>>
    /\ {d_xcom[2], d_xcom[3]} \subseteq d_source

(***************************************************************************)
(* C19: over all attempts of process_all_pdfs on the list pushed by        *)
(* check_for_pdf_files, with any step free to fail, no PDF is uploaded to  *)
(* the collection more than once, and a retry does not stop at a PDF that  *)
(* an earlier attempt has already moved: it goes on to the PDFs that are   *)
(* still to be processed.                                                  *)
(***************************************************************************)
C19_UploadedOnceRetryGoesOn ==
    (d_pc \notin {"off", "check"}) =>
        /\ \A p \in PDFs : d_uploads[p] <= 1
        /\ d_run.raised # "not_found"

(***************************************************************************)
(* Two invocations of answer_query at the same time (backend/main.py,      *)
(* backend/graph.py).  Each call of app.invoke runs the supersteps of the  *)
(* graph on a state of its own: graph.compile() is given no checkpointer,  *)
(* so a run starts from empty channels and nothing of it outlives the      *)
(* call.  The invocations take their steps in any order.  tools,           *)
(* llm_with_tools and app are module-level objects made at import time.    *)
(***************************************************************************)
Invocations == {1, 2}

\* the state a run of app.invoke works on: one for all runs
StateKeyShared(i) == 1

StateKey(i) == i

\* the chat_history lists the callers pass
CallerHistories == { <<>>, <<HumanMessage("Hi"), AIMessage("Hello")>> }

\* graph.py lines 17-20 and 61
SharedAtStartup ==
    [tools |-> get_tools,
     llm_with_tools |-> get_tools,
     app |-> [START |-> "reasoner", tools |-> "tool", end |-> "END", tool |-> AfterTool]]

\* what llm_with_tools.invoke answers: a final text or one tool call
ConcResponses ==
    { AIMessage("A"),
      Msg("ai", Text(""), <<ToolCall("get_weather_from_city_name")>>, 0) }

\* uuid4 ids: no two messages of any run share one
UniqueId(i, n) == Cardinality(Invocations) * n + i

ConcIds(ms, i, n) ==
    [j \in DOMAIN ms |->
        IF ms[j].id = 0 THEN [ms[j] EXCEPT !.id = UniqueId(i, n + j)] ELSE ms[j]]

\* i repeated once for every message of ms
OwnedBy(ms, i) == [j \in DOMAIN ms |-> i]

concOthers == <<chatVars, uiVars, toolVars, dagVars>>

InitConc ==
    /\ IdleChat
    /\ IdleUI
    /\ IdleTools
    /\ IdleDag
    /\ c_pc = [i \in Invocations |-> "call"]
    /\ \E hs \in [Invocations -> CallerHistories] :
         c_args = [i \in Invocations |->
                      [user_query |-> "Weather?", chat_history |-> hs[i], given |-> hs[i]]]
    /\ c_store = [k \in Invocations |-> [messages |-> <<>>, step |-> 0, next |-> 0]]
    /\ c_owner = [k \in Invocations |-> <<>>]
    /\ c_answer = [i \in Invocations |-> [text |-> "", owner |-> 0]]
    /\ \E b \in BOOLEAN : c_shared = [objects |-> SharedAtStartup, catch_all |-> b]

\* answer_query up to the first superstep.  add_messages gives an id to
\* every message it is handed that has none, and the messages it is handed
\* are the objects of the caller's list.
AnswerQuery(i) ==
    /\ c_pc[i] = "call"
    /\ LET k == StateKey(i)
           st == c_store[k]
           input == ConcIds(InitialMessages(c_args[i].chat_history, c_args[i].user_query),
                            i, st.next)
           to == Tick(0, StopFor(MaxLimit), c_shared.objects.app.START)
       IN  /\ c_store' = [c_store EXCEPT ![k] =
                            [messages |-> AddMessages(st.messages, input),
                             step |-> 0,
                             next |-> st.next + Len(input)]]
           /\ c_owner' = [c_owner EXCEPT ![k] = @ \o OwnedBy(input, i)]
           /\ c_args' = [c_args EXCEPT ![i].chat_history =
                            SubSeq(input, 1, Len(c_args[i].chat_history))]
           /\ c_pc' = [c_pc EXCEPT ![i] = to]
    /\ UNCHANGED <<c_answer, c_shared, concOthers>>

\* a superstep of reasoner_node and the conditional edge
ReasonerNode(i) ==
    /\ c_pc[i] = "reasoner"
    /\ LET k == StateKey(i)
           st == c_store[k]
       IN  \E r \in ConcResponses :
             LET resp == WithCallIds([r EXCEPT !.id = UniqueId(i, st.next + 1)], st.next + 1)
                 new_messages == AddMessages(st.messages, <<resp>>)
                 to == Tick(st.step + 1, StopFor(MaxLimit), AfterReasoner(new_messages))
             IN  /\ c_store' = [c_store EXCEPT ![k] =
                                  [messages |-> new_messages,
                                   step |-> st.step + 1,
                                   next |-> st.next + 1 + Len(resp.tool_calls)]]
                 /\ c_owner' = [c_owner EXCEPT ![k] = Append(@, i)]
                 /\ c_pc' = [c_pc EXCEPT ![i] =
                                IF to = "out_of_steps" THEN "aborted" ELSE to]
    /\ UNCHANGED <<c_args, c_answer, c_shared, concOthers>>

\* a superstep of the tool node
ToolNodeStep(i) ==
    /\ c_pc[i] = "tool"
    /\ LET k == StateKey(i)
           st == c_store[k]
           calls == st.messages[Len(st.messages)].tool_calls
       IN  \E outcomes \in [DOMAIN calls -> {"value", "null", "raise"}] :
             /\ \A j \in DOMAIN calls : outcomes[j] \in ToolOutcomes(calls[j].name)
             /\ IF ToolNodeRaises(calls, outcomes, c_shared.catch_all)
                THEN /\ c_pc' = [c_pc EXCEPT ![i] = "aborted"]
                     /\ UNCHANGED <<c_store, c_owner>>
                ELSE LET outputs == ConcIds(ToolNodeOutputs(calls, outcomes), i, st.next)
                         to == Tick(st.step + 1, StopFor(MaxLimit), AfterTool)
                     IN  /\ c_store' = [c_store EXCEPT ![k] =
                                          [messages |-> AddMessages(st.messages, outputs),
                                           step |-> st.step + 1,
                                           next |-> st.next + Len(outputs)]]
                         /\ c_owner' = [c_owner EXCEPT ![k] = @ \o OwnedBy(outputs, i)]
                         /\ c_pc' = [c_pc EXCEPT ![i] =
                                        IF to = "out_of_steps" THEN "aborted" ELSE to]
    /\ UNCHANGED <<c_args, c_answer, c_shared, concOthers>>

\* answer_query lines 28-37: the content of the last message of the result
AnswerReturn(i) ==
    /\ c_pc[i] = "done"
    /\ LET k == StateKey(i)
           st == c_store[k]
       IN  c_answer' = [c_answer EXCEPT ![i] =
                          [text |-> PostProcess(st.messages[Len(st.messages)].content),
                           owner |-> c_owner[k][Len(st.messages)]]]
    /\ c_pc' = [c_pc EXCEPT ![i] = "returned"]
    /\ UNCHANGED <<c_args, c_store, c_owner, c_shared, concOthers>>

NextConc ==
    \/ \E i \in Invocations : AnswerQuery(i)
    \/ \E i \in Invocations : ReasonerNode(i)
    \/ \E i \in Invocations : ToolNodeStep(i)
    \/ \E i \in Invocations : AnswerReturn(i)

SpecConc == InitConc /\ [][NextConc]_vars

(***************************************************************************)
(* C11: two invocations of answer_query running at the same time have      *)
(* conversation states of their own.  Whatever the order of their steps,   *)
(* every message in the state of an invocation was put there by that       *)
(* invocation, and so was the message its answer is taken from; the        *)
(* chat_history list of the caller keeps its messages, in number, order    *)
(* and content; and the tool list, the bound model and the compiled graph  *)
(* are as they were at start-up.                                           *)
(***************************************************************************)
Running(i) == c_pc[i] # "call"

C11_IndependentInvocations ==
    (c_pc # <<>>) =>
        /\ \A i \in Invocations :
              /\ Running(i) =>
                    /\ \A j \in DOMAIN c_owner[StateKey(i)] : c_owner[StateKey(i)][j] = i
                    /\ Len(c_store[StateKey(i)].messages) = Len(c_owner[StateKey(i)])
              /\ c_pc[i] = "returned" => c_answer[i].owner = i
              /\ StripIds(c_args[i].chat_history) = c_args[i].given
        /\ c_shared.objects = SharedAtStartup

C11_Witness ==
    /\ c_pc[1] = "tool"
    /\ c_pc[2] = "tool"
    /\ c_store[1].step = 3
    /\ c_store[2].step = 1
    /\ c_args[1].given # c_args[2].given
====
